---- MODULE Spec2Model ----
(***************************************************************************)
(* Model of vite-plugin-frontmatter-collection (src/src/index.ts).         *)
(*                                                                         *)
(* The plugin is one closure (frontmatterCollectionPlugin) holding the     *)
(* plugin options and the variable virtualModuleExports, and exposing the  *)
(* four host callbacks configResolved, resolveId, load and handleHotUpdate.*)
(* The host (Vite) drives the callbacks one at a time; content files       *)
(* change on disk between callbacks.                                       *)
(*                                                                         *)
(* Text is modelled as TLA+ strings built with \o, so that the module body *)
(* and the declaration file are the strings the code builds.  The NUL      *)
(* character of "\0" is written as the two characters backslash-zero.      *)
(***************************************************************************)
EXTENDS Integers, Sequences, FiniteSets, TLC

\* ------------------------------------------------------------------------
\* Bounds of the model
\* ------------------------------------------------------------------------
MaxEdits == 1
MaxDate == 2

\* ------------------------------------------------------------------------
\* Values
\* ------------------------------------------------------------------------
Undefined == "undefined"

Range(s) == {s[i] : i \in 1..Len(s)}

RECURSIVE join(_, _)
join(strs, sep) ==
  IF strs = <<>> THEN ""
  ELSE IF Len(strs) = 1 THEN strs[1]
  ELSE strs[1] \o sep \o join(Tail(strs), sep)

endsWith(s, suffix) ==
  /\ Len(s) >= Len(suffix)
  /\ SubSeq(s, Len(s) - Len(suffix) + 1, Len(s)) = suffix

startsWith(s, prefix) ==
  /\ Len(s) >= Len(prefix)
  /\ SubSeq(s, 1, Len(prefix)) = prefix

\* ------------------------------------------------------------------------
\* The content files on disk
\* ------------------------------------------------------------------------
\* The content files of the project, in directory order.
DirOrder == <<"posts/a.mdx", "posts/b.mdx", "notes/c.mdx">>
Files == Range(DirOrder)

Absent == [absent |-> TRUE]

\* The metadata block of a content file, as gray-matter parses it: a file
\* may be unpublished, may lack the `author` key and may carry a `filePath`
\* key of its own.
Data(author, date, published, filePath) ==
  [author |-> author, date |-> date, published |-> published,
   filePath |-> filePath]

Datas ==
  {Data("ann", d, TRUE, Undefined) : d \in 1..MaxDate}
  \cup {Data("ann", 1, FALSE, Undefined),
        Data(Undefined, 1, TRUE, Undefined),
        Data("ann", 1, TRUE, "elsewhere.mdx")}

InitialDisk ==
  [f \in Files |->
     CASE f = "posts/a.mdx" -> Data("ann", 1, TRUE, Undefined)
       [] f = "posts/b.mdx" -> Data("ann", 1, FALSE, Undefined)
       [] OTHER -> Data("ann", 2, TRUE, Undefined)]

\* ------------------------------------------------------------------------
\* Plugin options
\* ------------------------------------------------------------------------
Collection(name, include, ignore, schema, parseFrontMatter, sort, filter) ==
  [name |-> name, include |-> include, ignore |-> ignore, schema |-> schema,
   parseFrontMatter |-> parseFrontMatter, sort |-> sort, filter |-> filter]

PluginConfig(collections, typesPath, generateDTS) ==
  [collections |-> collections, typesPath |-> typesPath,
   generateDTS |-> generateDTS]

Configs ==
  { PluginConfig(
      << Collection("posts", "**/*.mdx", Undefined, "BlogPost", Undefined,
                    "dateDescending", "published"),
         Collection("notes", "posts\\*.mdx", Undefined, Undefined, "byline",
                    "dateDescending", Undefined) >>,
      Undefined, TRUE),
    PluginConfig(
      << Collection("both", "**/*.mdx", "notes/**", "Note", "byline",
                    Undefined, Undefined),
         Collection("drafts", "**/*.mdx", Undefined, Undefined, Undefined,
                    Undefined, Undefined),
         Collection("posts", "posts/*.mdx", Undefined, "BlogPost", Undefined,
                    Undefined, Undefined) >>,
      "types/fm.d.ts", TRUE),
    PluginConfig(
      << Collection("drafts", "**/*.mdx", Undefined, Undefined, Undefined,
                    Undefined, Undefined),
         Collection("posts", "posts/*.mdx", Undefined, "BlogPost", Undefined,
                    Undefined, Undefined) >>,
      Undefined, FALSE) }

VARIABLES
  config,                \* the options the plugin was constructed with
  disk,                  \* content file path -> metadata block, or Absent
  edits,                 \* number of file changes so far
  virtualModuleExports,  \* the closure variable of the same name
  moduleGraph,           \* the host's graph node of the virtual module
  dts,                   \* the declaration file
  last,                  \* the most recent event and what it did
  notified               \* history of the change notifications received

vars == <<config, disk, edits, virtualModuleExports, moduleGraph, dts, last,
          notified>>

\* ------------------------------------------------------------------------
\* External capabilities: glob, the contracts, the comparator, the filter
\* ------------------------------------------------------------------------
RECURSIVE globsafe(_)
globsafe(s) ==
  IF s = "" THEN ""
  ELSE (IF SubSeq(s, 1, 1) = "\\" THEN "/" ELSE SubSeq(s, 1, 1))
       \o globsafe(SubSeq(s, 2, Len(s)))

hasSlash(s) == \E i \in 1..Len(s) : SubSeq(s, i, i) = "/"

\* The patterns of the configurations: "**/*<ext>", "<dir>/**", "<dir>/*<ext>".
globMatches(pattern, path) ==
  IF startsWith(pattern, "**/*")
    THEN endsWith(path, SubSeq(pattern, 5, Len(pattern)))
  ELSE IF endsWith(pattern, "/**")
    THEN startsWith(path, SubSeq(pattern, 1, Len(pattern) - 2))
  ELSE \E i \in 1..Len(pattern) :
         /\ SubSeq(pattern, i, i) = "*"
         /\ startsWith(path, SubSeq(pattern, 1, i - 1))
         /\ endsWith(path, SubSeq(pattern, i + 1, Len(pattern)))
         /\ Len(path) >= Len(pattern) - 1
         /\ ~hasSlash(SubSeq(path, i, Len(path) - (Len(pattern) - i)))

Reverse(s) == [i \in 1..Len(s) |-> s[Len(s) + 1 - i]]

\* globSync: the files on disk that match the pattern and not the ignore
\* pattern.  The order is the matcher's: directory order or its reverse.
globSync(pattern, ignore, d, reversed) ==
  LET keep(f) == /\ d[f] # Absent
                 /\ globMatches(pattern, f)
                 /\ (ignore = Undefined \/ ~globMatches(ignore, f))
      found == SelectSeq(DirOrder, keep)
  IN  IF reversed THEN Reverse(found) ELSE found

\* schema.parse: both schemas are z.object({author: z.string(), date,
\* published, filePath: z.string()}); a missing author is a ZodError.
schemaParse(schema, frontmatter) ==
  IF frontmatter.author = Undefined
    THEN [ok |-> FALSE, error |-> "Required"]
    ELSE [ok |-> TRUE,
          value |-> [author |-> frontmatter.author,
                     date |-> frontmatter.date,
                     published |-> frontmatter.published,
                     filePath |-> frontmatter.filePath]]

\* A hand-written parseFrontMatter: throws for an unpublished file and
\* returns a byline otherwise.
parseFrontMatter(fn, frontmatter) ==
  IF ~frontmatter.published
    THEN [ok |-> FALSE, error |-> "draft"]
    ELSE [ok |-> TRUE,
          value |-> [byline |-> IF frontmatter.author = Undefined
                                  THEN "anonymous" ELSE frontmatter.author,
                     date |-> frontmatter.date,
                     filePath |-> frontmatter.filePath]]

\* The comparator of the documentation: newest first.
sortFn(fn, a, b) ==
  IF a.date > b.date THEN -1 ELSE IF a.date = b.date THEN 0 ELSE 1

\* The filter of the documentation: (a) => a.published.
filterFn(fn, a) == "published" \in DOMAIN a /\ a.published

\* Array.prototype.sort with a comparator: a stable sort (ECMAScript 2019).
\* A sort that places an element before the elements it compares equal to.
RECURSIVE insertSortedUnstable(_, _, _)
insertSortedUnstable(sorted, x, fn) ==
  IF sorted = <<>> THEN <<x>>
  ELSE IF sortFn(fn, Head(sorted), x) < 0
    THEN <<Head(sorted)>> \o insertSortedUnstable(Tail(sorted), x, fn)
    ELSE <<x>> \o sorted

RECURSIVE insertSorted(_, _, _)
insertSorted(sorted, x, fn) ==
  IF sorted = <<>> THEN <<x>>
  ELSE IF sortFn(fn, Head(sorted), x) <= 0
    THEN <<Head(sorted)>> \o insertSorted(Tail(sorted), x, fn)
    ELSE <<x>> \o sorted

RECURSIVE arraySort(_, _)
arraySort(arr, fn) ==
  IF arr = <<>> THEN <<>>
  ELSE insertSorted(arraySort(SubSeq(arr, 1, Len(arr) - 1), fn),
                    arr[Len(arr)], fn)

\* ------------------------------------------------------------------------
\* collectFrontmatterEntries
\* ------------------------------------------------------------------------
\* The object handed to the contract: { filePath: file, ...data }.
spreadFrontmatter(file, data) ==
  [author |-> data.author, date |-> data.date, published |-> data.published,
   filePath |-> IF data.filePath # Undefined THEN data.filePath ELSE file]

\* The parse function tried as well when the schema rejects the object.
schemaThenParse(collection, frontmatter, result) ==
  IF ~result.ok /\ collection.parseFrontMatter # Undefined
    THEN parseFrontMatter(collection.parseFrontMatter, frontmatter)
    ELSE result

callContractFallback(collection, frontmatter) ==
  IF collection.schema # Undefined
    THEN schemaThenParse(collection, frontmatter,
                         schemaParse(collection.schema, frontmatter))
    ELSE parseFrontMatter(collection.parseFrontMatter, frontmatter)

\* The contract of the collection applied to one object: the schema when
\* there is one, the parse function otherwise.
callContract(collection, frontmatter) ==
  IF collection.schema # Undefined
    THEN schemaParse(collection.schema, frontmatter)
    ELSE parseFrontMatter(collection.parseFrontMatter, frontmatter)

\* The try/catch around the contract call: a value is pushed, an error is
\* logged.
pushOutcome(file, frontmatter, result, acc) ==
  [read |-> Append(acc.read, file),
   handed |-> Append(acc.handed, frontmatter),
   entries |-> IF result.ok THEN Append(acc.entries, result.value)
               ELSE acc.entries,
   errors |-> IF result.ok THEN acc.errors ELSE Append(acc.errors, file)]

handFrontmatter(collection, file, frontmatter, acc) ==
  pushOutcome(file, frontmatter, callContract(collection, frontmatter), acc)

\* One iteration of the for loop over allFiles.
processFile(collection, file, d, acc) ==
  handFrontmatter(collection, file, spreadFrontmatter(file, d[file]), acc)

\* The loop with the try around it instead of inside it: the first failing
\* file ends the loop.
RECURSIVE forEachFileTryOutside(_, _, _, _)
RECURSIVE untilFirstError(_, _, _, _, _)
untilFirstError(collection, files, d, acc, next) ==
  IF Len(next.errors) > Len(acc.errors) THEN next
  ELSE forEachFileTryOutside(collection, Tail(files), d, next)

forEachFileTryOutside(collection, files, d, acc) ==
  IF files = <<>> THEN acc
  ELSE untilFirstError(collection, files, d, acc,
                       processFile(collection, Head(files), d, acc))

RECURSIVE forEachFile(_, _, _, _)
forEachFile(collection, files, d, acc) ==
  IF files = <<>> THEN acc
  ELSE forEachFile(collection, Tail(files), d,
                   processFile(collection, Head(files), d, acc))

\* What collectFrontmatterEntries did, for the properties: whether it threw,
\* whether it globbed, the files it read, the objects it handed to the
\* contract, the entries before the sort, the files it logged an error for,
\* and the entries it returned.
threwBeforeGlob ==
  [threw |-> TRUE, globbed |-> FALSE, allFiles |-> <<>>, read |-> <<>>,
   handed |-> <<>>, parsed |-> <<>>, errors |-> <<>>, entries |-> <<>>]

returned(collection, allFiles, loop) ==
  [threw |-> FALSE, globbed |-> TRUE, allFiles |-> allFiles,
   read |-> loop.read, handed |-> loop.handed, parsed |-> loop.entries,
   errors |-> loop.errors,
   entries |-> IF collection.sort # Undefined
                 THEN arraySort(loop.entries, collection.sort)
                 ELSE loop.entries]

\* The part of collectFrontmatterEntries after the glob.
collectFrom(collection, allFiles, d) ==
  returned(collection, allFiles,
           forEachFile(collection, allFiles, d,
                       [read |-> <<>>, handed |-> <<>>, entries |-> <<>>,
                        errors |-> <<>>]))

\* The contract check made after the files were globbed and read.
checkAfterRead(collection, allFiles, d) ==
  IF collection.schema = Undefined /\ collection.parseFrontMatter = Undefined
    THEN [threw |-> TRUE, globbed |-> TRUE, allFiles |-> allFiles,
          read |-> allFiles, handed |-> <<>>, parsed |-> <<>>,
          errors |-> <<>>, entries |-> <<>>]
    ELSE collectFrom(collection, allFiles, d)

collectFrontmatterEntriesLateCheck(collection, d, reversed) ==
  checkAfterRead(collection,
                 globSync(globsafe(collection.include), collection.ignore, d,
                          reversed),
                 d)

collectFrontmatterEntries(collection, d, reversed) ==
  IF collection.schema = Undefined /\ collection.parseFrontMatter = Undefined
    THEN threwBeforeGlob
    ELSE collectFrom(collection,
                     globSync(globsafe(collection.include),
                              collection.ignore, d, reversed),
                     d)

\* ------------------------------------------------------------------------
\* refreshVirtualModuleContent
\* ------------------------------------------------------------------------
jsonString(s) == "\"" \o s \o "\""

jsonBoolean(b) == IF b THEN "true" ELSE "false"

\* JSON.stringify of one entry: the keys in the order the contract set them.
jsonEntry(e) ==
  IF "author" \in DOMAIN e
    THEN "{\"author\":" \o jsonString(e.author)
         \o ",\"date\":" \o ToString(e.date)
         \o ",\"published\":" \o jsonBoolean(e.published)
         \o ",\"filePath\":" \o jsonString(e.filePath) \o "}"
    ELSE "{\"byline\":" \o jsonString(e.byline)
         \o ",\"date\":" \o ToString(e.date)
         \o ",\"filePath\":" \o jsonString(e.filePath) \o "}"

JSONstringify(entries) ==
  "[" \o join([i \in 1..Len(entries) |-> jsonEntry(entries[i])], ",") \o "]"

exportStatement(collection, entries) ==
  "export const " \o collection.name \o " = " \o JSONstringify(entries) \o ";"

\* The for loop over collections; a throw of collectFrontmatterEntries
\* leaves the loop.
RECURSIVE forEachCollection(_, _, _, _, _)
RECURSIVE pushExport(_, _, _, _, _, _)
pushExport(collections, i, d, reversed, acc, c) ==
  IF c.threw
    THEN [acc EXCEPT !.threw = TRUE, !.compiled = Append(@, c)]
    ELSE forEachCollection(collections, i + 1, d, reversed,
           [acc EXCEPT !.compiled = Append(@, c),
                       !.exportedEntries =
                          Append(@, exportStatement(collections[i],
                                                    c.entries))])

forEachCollection(collections, i, d, reversed, acc) ==
  IF i > Len(collections) THEN acc
  ELSE pushExport(collections, i, d, reversed, acc,
                  collectFrontmatterEntries(collections[i], d, reversed))

joinExports(done) ==
  [threw |-> done.threw, compiled |-> done.compiled,
   body |-> IF done.threw THEN Undefined
            ELSE join(done.exportedEntries, "\n")]

refreshVirtualModuleContent(collections, d, reversed) ==
  joinExports(forEachCollection(collections, 1, d, reversed,
                [threw |-> FALSE, compiled |-> <<>>,
                 exportedEntries |-> <<>>]))

\* ------------------------------------------------------------------------
\* The callbacks, as functions of their inputs
\* ------------------------------------------------------------------------
virtualModuleId == "virtual:frontmatter-collection"

resolvedVirtualModuleId(id) == "\\0" \o id

\* resolveId matching on the prefix of the identifier.
resolveIdPrefix(id) ==
  IF startsWith(id, virtualModuleId)
    THEN resolvedVirtualModuleId(virtualModuleId)
  ELSE Undefined

resolveId(id) ==
  IF id = virtualModuleId THEN resolvedVirtualModuleId(virtualModuleId)
  ELSE Undefined

\* The outcome of load for the internal resolved id: its result, and the
\* new value of virtualModuleExports.
refreshed(r, cached) ==
  [ret |-> r.body, threw |-> r.threw, compiled |-> r.compiled,
   exports |-> IF r.threw THEN cached ELSE r.body]

\* load returning the body it computed before, when there is one.
loadCached(id, cached, collections, d, reversed) ==
  IF id = resolvedVirtualModuleId(virtualModuleId)
    THEN IF cached # Undefined
           THEN [ret |-> cached, threw |-> FALSE, compiled |-> <<>>,
                 exports |-> cached]
           ELSE refreshed(refreshVirtualModuleContent(collections, d,
                                                      reversed), cached)
    ELSE [ret |-> Undefined, threw |-> FALSE, compiled |-> <<>>,
          exports |-> cached]

load(id, cached, collections, d, reversed) ==
  IF id = resolvedVirtualModuleId(virtualModuleId)
    THEN refreshed(refreshVirtualModuleContent(collections, d, reversed),
                   cached)
    ELSE [ret |-> Undefined, threw |-> FALSE, compiled |-> <<>>,
          exports |-> cached]

\* handleHotUpdate without the extension check.
handleHotUpdateAnyFile(file, node) ==
  IF node # "absent" THEN "stale" ELSE node

\* handleHotUpdate: the state of the virtual module's node afterwards.
handleHotUpdate(file, node) ==
  IF ~endsWith(file, ".mdx") THEN node
  ELSE IF node # "absent" THEN "stale"
  ELSE node

\* printNode(zodToTs(schema).node): the structural type of the schema.
printNode(schema) ==
  "{\n    author: string;\n    date: number;\n    published: boolean;\n"
  \o "    filePath: string;\n}"

\* A declaration for every collection that has a contract.
RECURSIVE ambientDeclarationsAll(_)
ambientDeclarationsAll(collections) ==
  IF collections = <<>> THEN <<>>
  ELSE LET collection == Head(collections)
       IN  (IF \/ collection.schema # Undefined
               \/ collection.parseFrontMatter # Undefined
              THEN <<"export const " \o collection.name \o ": "
                     \o printNode(collection.schema) \o "[];">>
              ELSE <<>>)
           \o ambientDeclarationsAll(Tail(collections))

RECURSIVE ambientDeclarations(_)
ambientDeclarations(collections) ==
  IF collections = <<>> THEN <<>>
  ELSE LET collection == Head(collections)
       IN  (IF collection.schema # Undefined
              THEN <<"export const " \o collection.name \o ": "
                     \o printNode(collection.schema) \o "[];">>
              ELSE <<>>)
           \o ambientDeclarations(Tail(collections))

NoFile == [path |-> Undefined, text |-> Undefined]

\* configResolved without the generateDTS check.
configResolvedAlways(cfg, root) ==
  [path |-> root \o "/"
            \o (IF cfg.typesPath # Undefined THEN cfg.typesPath
                ELSE "frontmatter-collection.d.ts"),
   text |-> "// This file is auto-generated. Do not edit manually.\n"
            \o "declare module \"virtual:frontmatter-collection\" {\n"
            \o join(ambientDeclarations(cfg.collections), "\n")
            \o "\n}\n"]

\* configResolved: the file it writes, NoFile when it writes none.
configResolved(cfg, root) ==
  IF ~cfg.generateDTS THEN NoFile
  ELSE [path |-> root \o "/"
                 \o (IF cfg.typesPath # Undefined THEN cfg.typesPath
                     ELSE "frontmatter-collection.d.ts"),
        text |-> "// This file is auto-generated. Do not edit manually.\n"
                 \o "declare module \"virtual:frontmatter-collection\" {\n"
                 \o join(ambientDeclarations(cfg.collections), "\n")
                 \o "\n}\n"]

\* ------------------------------------------------------------------------
\* The state machine
\* ------------------------------------------------------------------------
Ids == {virtualModuleId, resolvedVirtualModuleId(virtualModuleId),
        "virtual:frontmatter-collections"}

HotPaths == {"posts/a.mdx", "notes/todo.md", "src/mdx"}

ProjectRoot == "/proj"

isContentFile(path) == endsWith(path, ".mdx")

Event(op, arg, ret, threw, wrote, compiled) ==
  [op |-> op, arg |-> arg, ret |-> ret, threw |-> threw, wrote |-> wrote,
   compiled |-> compiled]

Init ==
  /\ config \in Configs
  /\ disk = InitialDisk
  /\ edits = 0
  /\ virtualModuleExports = Undefined
  /\ moduleGraph = "absent"
  /\ dts = NoFile
  /\ last = Event("construct", Undefined, Undefined, FALSE, FALSE, <<>>)
  /\ notified = [matched |-> FALSE, live |-> FALSE]

\* A content file is created or rewritten.
WriteFile(f, data) ==
  /\ edits < MaxEdits
  /\ disk[f] # data
  /\ disk' = [disk EXCEPT ![f] = data]
  /\ edits' = edits + 1
  /\ last' = Event("writeFile", Undefined, Undefined, FALSE, FALSE, <<>>)
  /\ UNCHANGED <<config, virtualModuleExports, moduleGraph, dts, notified>>

\* A content file is deleted.
DeleteFile(f) ==
  /\ edits < MaxEdits
  /\ disk[f] # Absent
  /\ disk' = [disk EXCEPT ![f] = Absent]
  /\ edits' = edits + 1
  /\ last' = Event("deleteFile", Undefined, Undefined, FALSE, FALSE, <<>>)
  /\ UNCHANGED <<config, virtualModuleExports, moduleGraph, dts, notified>>

\* The host adds the virtual module to its module graph.
HostCreateModule ==
  /\ moduleGraph = "absent"
  /\ moduleGraph' = "fresh"
  /\ UNCHANGED <<config, disk, edits, virtualModuleExports, dts, last,
                 notified>>

Written(written) ==
  /\ dts' = IF written = NoFile THEN dts ELSE written
  /\ last' = Event("configResolved", ProjectRoot, Undefined, FALSE,
                   written # NoFile, <<>>)
  /\ UNCHANGED <<config, disk, edits, virtualModuleExports, moduleGraph,
                 notified>>

ConfigResolved == Written(configResolved(config, ProjectRoot))

ResolveId(id) ==
  /\ last' = Event("resolveId", id, resolveId(id), FALSE, FALSE, <<>>)
  /\ UNCHANGED <<config, disk, edits, virtualModuleExports, moduleGraph, dts,
                 notified>>

Loaded(id, r) ==
  /\ virtualModuleExports' = r.exports
  /\ last' = Event("load", id, r.ret, r.threw, FALSE, r.compiled)
  /\ UNCHANGED <<config, disk, edits, moduleGraph, dts, notified>>

Load(id) ==
  \E reversed \in BOOLEAN :
    Loaded(id, load(id, virtualModuleExports, config.collections, disk,
                    reversed))

HandleHotUpdate(file) ==
  /\ moduleGraph' = handleHotUpdate(file, moduleGraph)
  /\ notified' = [matched |-> notified.matched \/ isContentFile(file),
                  live |-> notified.live
                           \/ (isContentFile(file) /\ moduleGraph # "absent")]
  /\ last' = Event("handleHotUpdate", file, "modules", FALSE, FALSE, <<>>)
  /\ UNCHANGED <<config, disk, edits, virtualModuleExports, dts>>

Next ==
  \/ \E f \in Files, data \in Datas : WriteFile(f, data)
  \/ \E f \in Files : DeleteFile(f)
  \/ HostCreateModule
  \/ ConfigResolved
  \/ \E id \in Ids : ResolveId(id)
  \/ \E id \in Ids : Load(id)
  \/ \E file \in HotPaths : HandleHotUpdate(file)

Spec == Init /\ [][Next]_vars

\* ------------------------------------------------------------------------
\* Vocabulary of the properties
\* ------------------------------------------------------------------------
collections == config.collections

hasContract(collection) ==
  collection.schema # Undefined \/ collection.parseFrontMatter # Undefined

\* The most recent event is a load of the internal resolved id.
LoadedVirtualModule ==
  last.op = "load" /\ last.arg = "\\0virtual:frontmatter-collection"

\* The outcome of the collection's contract for one object handed to it.
contractResult(collection, frontmatter) ==
  IF collection.schema # Undefined
    THEN schemaParse(collection.schema, frontmatter)
    ELSE parseFrontMatter(collection.parseFrontMatter, frontmatter)

contractThrows(collection, frontmatter) ==
  ~contractResult(collection, frontmatter).ok

count(seq, x) == Cardinality({k \in 1..Len(seq) : seq[k] = x})

isPermutation(a, b) ==
  /\ Len(a) = Len(b)
  /\ \A x \in Range(a) \cup Range(b) : count(a, x) = count(b, x)

\* The collections of the last load that were compiled with a contract.
Compiled == {i \in 1..Len(last.compiled) : ~last.compiled[i].threw}

\* ------------------------------------------------------------------------
\* C1 - Partial-failure isolation: when a collection with a schema (or a
\* parseFrontMatter function) is compiled over N matched files and the
\* contract throws for exactly k of them, collectFrontmatterEntries returns
\* exactly N-k entries, every file after a failing one is still processed,
\* and no exception of the contract escapes collectFrontmatterEntries or
\* load.
\* ------------------------------------------------------------------------
PartialFailureIsolation ==
  LoadedVirtualModule =>
    /\ (\A i \in 1..Len(collections) : hasContract(collections[i]))
         => (~last.threw /\ Len(last.compiled) = Len(collections))
    /\ \A i \in 1..Len(last.compiled) :
         hasContract(collections[i]) =>
           LET c == last.compiled[i]
               N == Len(c.allFiles)
               failing == {j \in 1..Len(c.handed) :
                             contractThrows(collections[i], c.handed[j])}
               k == Cardinality(failing)
           IN  /\ ~c.threw
               /\ c.read = c.allFiles
               /\ Len(c.handed) = N
               /\ Len(c.errors) = k
               /\ Len(c.entries) = N - k

\* A load compiled a collection in which the contract threw for one file and
\* accepted a file that came after it.
PartialFailureWitness ==
  /\ LoadedVirtualModule
  /\ ~last.threw
  /\ \E i \in Compiled :
       LET c == last.compiled[i]
       IN  \E j, k \in 1..Len(c.handed) :
             /\ j < k
             /\ contractThrows(collections[i], c.handed[j])
             /\ ~contractThrows(collections[i], c.handed[k])
             /\ c.entries # <<>>

\* ------------------------------------------------------------------------
\* C2 - Filter correctness: for a collection whose config carries a filter
\* predicate, every entry returned by collectFrontmatterEntries satisfies
\* the filter.
\* ------------------------------------------------------------------------
FilterCorrectness ==
  LoadedVirtualModule =>
    \A i \in Compiled :
      collections[i].filter # Undefined =>
        \A e \in Range(last.compiled[i].entries) :
          filterFn(collections[i].filter, e)

\* ------------------------------------------------------------------------
\* C3 - Missing-contract failure, as claimed: if any collection has neither
\* schema nor parseFrontMatter, a load of the virtual module throws and, when
\* it throws, no file of any collection has been globbed or read during that
\* load.
\* ------------------------------------------------------------------------
MissingContractBeforeAnyFile ==
  (LoadedVirtualModule
   /\ \E i \in 1..Len(collections) : ~hasContract(collections[i]))
    => /\ last.threw
       /\ \A i \in 1..Len(last.compiled) :
            ~last.compiled[i].globbed /\ last.compiled[i].read = <<>>

\* C3, amended: the load throws and, when it throws, no file of the first
\* collection without a contract, nor of any collection after it, has been
\* globbed or read during that load; the collections before it have been
\* globbed and their files read.
MissingContractBeforeOwnFiles ==
  (LoadedVirtualModule
   /\ \E i \in 1..Len(collections) : ~hasContract(collections[i]))
    => LET bad == CHOOSE i \in 1..Len(collections) :
                    /\ ~hasContract(collections[i])
                    /\ \A h \in 1..(i - 1) : hasContract(collections[h])
       IN  /\ last.threw
           /\ last.ret = Undefined
           /\ Len(last.compiled) = bad
           /\ ~last.compiled[bad].globbed
           /\ last.compiled[bad].read = <<>>
           /\ \A h \in 1..(bad - 1) :
                /\ last.compiled[h].globbed
                /\ last.compiled[h].read = last.compiled[h].allFiles

\* A load threw at a collection that is not the first of the list, after the
\* files of the collection before it were read.
MissingContractWitness ==
  /\ LoadedVirtualModule
  /\ last.threw
  /\ Len(last.compiled) = 2
  /\ last.compiled[1].read # <<>>
  /\ ~last.compiled[2].globbed

\* ------------------------------------------------------------------------
\* C4 - Invalidation selectivity, as claimed: after any sequence of
\* handleHotUpdate calls the virtual module's node is marked stale if and
\* only if at least one of the notified paths matched the content-file
\* extension.
\* ------------------------------------------------------------------------
InvalidationSelectivity ==
  (moduleGraph = "stale") <=> notified.matched

\* C4, amended: the node is marked stale if and only if at least one notified
\* path matched the content-file extension while the virtual module had a
\* node in the module graph.
InvalidationOfLiveNode ==
  /\ (moduleGraph = "stale") <=> notified.live
  /\ notified.live => notified.matched

\* A matching notification marked the node stale.
InvalidationWitness ==
  /\ last.op = "handleHotUpdate"
  /\ endsWith(last.arg, ".mdx")
  /\ moduleGraph = "stale"

\* ------------------------------------------------------------------------
\* C5 - Load freshness: every load of the internal resolved id that returns
\* a body returns exactly one `export const <name> = <JSON array>;`
\* statement per configured collection, in configuration order, computed
\* from the files on disk at the time of that load; a body computed earlier
\* is never returned in place of a recomputation.  (A file change replaces
\* `last`, so while `last` is the load the disk is the disk the load saw.)
\* ------------------------------------------------------------------------
\* The files a collection matches on the disk as it is now.
matchedOnDisk(collection) ==
  {f \in Files :
     /\ disk[f] # Absent
     /\ globMatches(globsafe(collection.include), f)
     /\ (collection.ignore = Undefined \/ ~globMatches(collection.ignore, f))}

\* The values the contract returns for the objects it accepts, in order.
acceptedValues(collection, handed) ==
  LET accepts(fm) == ~contractThrows(collection, fm)
      accepted == SelectSeq(handed, accepts)
  IN  [k \in 1..Len(accepted) |->
         contractResult(collection, accepted[k]).value]

LoadFreshness ==
  (LoadedVirtualModule /\ ~last.threw) =>
    /\ Len(last.compiled) = Len(collections)
    /\ last.ret =
         join([i \in 1..Len(collections) |->
                 "export const " \o collections[i].name \o " = "
                 \o JSONstringify(last.compiled[i].entries) \o ";"], "\n")
    /\ virtualModuleExports = last.ret
    /\ \A i \in 1..Len(last.compiled) :
         LET c == last.compiled[i]
         IN  /\ Range(c.allFiles) = matchedOnDisk(collections[i])
             /\ Len(c.allFiles) = Cardinality(matchedOnDisk(collections[i]))
             /\ Len(c.handed) = Len(c.allFiles)
             /\ \A j \in 1..Len(c.handed) :
                  /\ c.handed[j].author = disk[c.allFiles[j]].author
                  /\ c.handed[j].date = disk[c.allFiles[j]].date
                  /\ c.handed[j].published = disk[c.allFiles[j]].published
             /\ c.parsed = acceptedValues(collections[i], c.handed)
             /\ isPermutation(c.entries, c.parsed)
             /\ (collections[i].sort = Undefined => c.entries = c.parsed)

\* A load returned a body of two statements after a content file was deleted:
\* the body is the one of the disk without that file.
LoadFreshnessWitness ==
  /\ LoadedVirtualModule
  /\ ~last.threw
  /\ edits > 0
  /\ \E f \in Files : disk[f] = Absent
  /\ Len(last.compiled) = 2
  /\ last.ret = virtualModuleExports
  /\ last.compiled[1].entries # <<>>

\* ------------------------------------------------------------------------
\* C6 - Resolve: resolveId returns the internal resolved id
\* ("\0virtual:frontmatter-collection") if and only if the requested id is
\* exactly "virtual:frontmatter-collection" and returns nothing for every
\* other id; load returns nothing for every id other than the internal
\* resolved id.
\* ------------------------------------------------------------------------
ResolveExact ==
  /\ last.op = "resolveId" =>
       /\ (last.ret = "\\0virtual:frontmatter-collection")
            <=> (last.arg = "virtual:frontmatter-collection")
       /\ last.arg # "virtual:frontmatter-collection" => last.ret = Undefined
  /\ (last.op = "load" /\ last.arg # "\\0virtual:frontmatter-collection") =>
       /\ last.ret = Undefined
       /\ ~last.threw
       /\ last.compiled = <<>>

\* resolveId was asked for an id that only starts with the virtual module's
\* name, and declined.
ResolveWitness ==
  /\ last.op = "resolveId"
  /\ last.arg = "virtual:frontmatter-collections"
  /\ last.ret = Undefined

\* ------------------------------------------------------------------------
\* C7 - Sort correctness: for a collection with a sort comparator (a total
\* order), the returned sequence is a permutation of the successfully
\* processed entries, adjacent entries a, b satisfy sort(a, b) <= 0, and
\* entries that compare equal keep the relative order in which their files
\* were yielded by the glob resolver.
\* ------------------------------------------------------------------------
SortCorrectness ==
  LoadedVirtualModule =>
    \A i \in Compiled :
      collections[i].sort # Undefined =>
        LET c == last.compiled[i]
            fn == collections[i].sort
            ties(seq, x) ==
              LET equal(y) == sortFn(fn, x, y) = 0
              IN  SelectSeq(seq, equal)
        IN  /\ c.parsed = acceptedValues(collections[i], c.handed)
            /\ isPermutation(c.entries, c.parsed)
            /\ \A k \in 1..(Len(c.entries) - 1) :
                 sortFn(fn, c.entries[k], c.entries[k + 1]) <= 0
            /\ \A x \in Range(c.parsed) :
                 ties(c.entries, x) = ties(c.parsed, x)

\* A sorted collection whose entries the sort reordered and in which two
\* distinct entries compare equal.
SortWitness ==
  /\ LoadedVirtualModule
  /\ \E i \in Compiled :
       LET c == last.compiled[i]
       IN  /\ collections[i].sort # Undefined
           /\ c.entries # c.parsed
           /\ \E k \in 1..(Len(c.entries) - 1) :
                /\ sortFn(collections[i].sort, c.entries[k],
                          c.entries[k + 1]) = 0
                /\ c.entries[k] # c.entries[k + 1]

\* ------------------------------------------------------------------------
\* C8 - Declaration content: the declaration file written by configResolved
\* contains one `export const <name>: <type>[];` line for each configured
\* collection that carries a schema and none for a collection that carries
\* only parseFrontMatter, in configuration order, inside a single
\* `declare module "virtual:frontmatter-collection"` block after the
\* auto-generated header; the text depends on the configuration alone, so
\* two emissions with unchanged configs write identical text.
\* ------------------------------------------------------------------------
DeclarationContent ==
  dts # NoFile =>
    LET withSchema(collection) == collection.schema # Undefined
        declared == SelectSeq(collections, withSchema)
        lines == [k \in 1..Len(declared) |->
                    "export const " \o declared[k].name \o ": "
                    \o printNode(declared[k].schema) \o "[];"]
    IN  /\ dts.text =
             "// This file is auto-generated. Do not edit manually.\n"
             \o "declare module \"virtual:frontmatter-collection\" {\n"
             \o join(lines, "\n") \o "\n}\n"
        /\ dts.path \in {"/proj/frontmatter-collection.d.ts",
                         "/proj/types/fm.d.ts"}

\* configResolved wrote the file again, for a configuration that has a
\* collection with a schema and a collection with only parseFrontMatter.
DeclarationWitness ==
  /\ last.op = "configResolved"
  /\ last.wrote
  /\ dts # NoFile
  /\ \E i, j \in 1..Len(collections) :
       /\ collections[i].schema # Undefined
       /\ collections[j].schema = Undefined
       /\ collections[j].parseFrontMatter # Undefined

\* ------------------------------------------------------------------------
\* C9 - Declaration writes: the declaration file is written only by
\* configResolved and only when generateDTS is true; resolveId, load and
\* handleHotUpdate leave the file unchanged, and with generateDTS false no
\* callback ever writes it.
\* ------------------------------------------------------------------------
DeclarationWrites ==
  [][ /\ (dts' # dts \/ last'.wrote)
         => (last'.op = "configResolved" /\ config.generateDTS)
      /\ ~config.generateDTS => dts' = NoFile ]_vars

\* configResolved ran with generateDTS false and there is no file.
DeclarationWritesWitness ==
  /\ last.op = "configResolved"
  /\ ~config.generateDTS
  /\ ~last.wrote
  /\ dts = NoFile

declaresBoth(collection) ==
  collection.schema # Undefined /\ collection.parseFrontMatter # Undefined

ContractPrecedence ==
  LoadedVirtualModule =>
    \A i \in Compiled :
      declaresBoth(collections[i]) =>
        LET c == last.compiled[i]
            schema == collections[i].schema
            accepted == {j \in 1..Len(c.handed) :
                           schemaParse(schema, c.handed[j]).ok}
            bySchema(fm) == schemaParse(schema, fm).ok
            kept == SelectSeq(c.handed, bySchema)
            rejected(f) ==
              \E j \in 1..Len(c.handed) :
                c.allFiles[j] = f /\ ~schemaParse(schema, c.handed[j]).ok
        IN  /\ Len(c.handed) = Len(c.allFiles)
            /\ c.parsed = [k \in 1..Len(kept) |->
                             schemaParse(schema, kept[k]).value]
            /\ c.errors = SelectSeq(c.allFiles, rejected)
            /\ Len(c.entries) = Cardinality(accepted)
            /\ Len(c.entries) <= Len(c.allFiles)
            /\ \A e \in Range(c.entries) : "byline" \notin DOMAIN e

\* A collection with both contracts was compiled over a file the schema
\* rejects and the parse function would accept, and a file the schema
\* accepts and the parse function would reject.
ContractPrecedenceWitness ==
  /\ LoadedVirtualModule
  /\ \E i \in Compiled :
       LET c == last.compiled[i]
           fn == collections[i].parseFrontMatter
       IN  /\ declaresBoth(collections[i])
           /\ \E j, k \in 1..Len(c.handed) :
                /\ ~schemaParse(collections[i].schema, c.handed[j]).ok
                /\ parseFrontMatter(fn, c.handed[j]).ok
                /\ schemaParse(collections[i].schema, c.handed[k]).ok
                /\ ~parseFrontMatter(fn, c.handed[k]).ok
           /\ Len(c.entries) = 1
           /\ Len(c.errors) = 1

====
